---- MODULE Spec2Model ----
(***************************************************************************)
(* Route table, request binding and response shaping of main.py, a FastAPI *)
(* application (pydantic v1 idioms: Config.schema_extra, .dict(), regex=). *)
(*                                                                         *)
(* A request is a record [method, path, query, headers, cookies, body].    *)
(* path is the sequence of the segments that follow each "/" of the URL    *)
(* path: "/" is <<"">>, "/items/" is <<"items", "">>, "/items/5" is        *)
(* <<"items", "5">>.  query and headers are sequences of [k, v] pairs in   *)
(* order of appearance, cookies is a JSON object of texts.    body is a JSON  *)
(* value (a tagged record, see None .. JObj); None is also the body of a  *)
(* request that carries none.  Bodies are parsed JSON: bytes that are not  *)
(* JSON are outside this model.                                            *)
(***************************************************************************)
EXTENDS Integers, Sequences, FiniteSets, TLC

VARIABLES routes, req, state, route, raw, args, errors, invoked, result, response

vars == <<routes, req, state, route, raw, args, errors, invoked, result, response>>

(***************************************************************************)
(* Text                                                                    *)
(***************************************************************************)

CharAt(s, i) == SubSeq(s, i, i)

Digits == {"0", "1", "2", "3", "4", "5", "6", "7", "8", "9"}

DigitVal(c) ==
  CASE c = "0" -> 0 [] c = "1" -> 1 [] c = "2" -> 2 [] c = "3" -> 3 [] c = "4" -> 4
    [] c = "5" -> 5 [] c = "6" -> 6 [] c = "7" -> 7 [] c = "8" -> 8 [] c = "9" -> 9

DigitChar(d) == CharAt("0123456789", d + 1)

IsDigits(s) == Len(s) > 0 /\ \A i \in 1..Len(s) : CharAt(s, i) \in Digits

RECURSIVE DigitsVal(_)
DigitsVal(s) ==
  IF Len(s) = 0 THEN 0
  ELSE 10 * DigitsVal(SubSeq(s, 1, Len(s) - 1)) + DigitVal(CharAt(s, Len(s)))

\* int(text): an optional sign and then decimal digits; anything else fails.
IsIntText(s) ==
  /\ Len(s) > 0
  /\ IF CharAt(s, 1) \in {"-", "+"} THEN IsDigits(SubSeq(s, 2, Len(s))) ELSE IsDigits(s)

IntOfText(s) ==
  IF CharAt(s, 1) = "-" THEN 0 - DigitsVal(SubSeq(s, 2, Len(s)))
  ELSE IF CharAt(s, 1) = "+" THEN DigitsVal(SubSeq(s, 2, Len(s)))
  ELSE DigitsVal(s)

RECURSIVE NatText(_)
NatText(n) == IF n < 10 THEN DigitChar(n) ELSE NatText(n \div 10) \o DigitChar(n % 10)

\* str(n)
TextOfInt(n) == IF n < 0 THEN "-" \o NatText(0 - n) ELSE NatText(n)

(***************************************************************************)
(* JSON values                                                             *)
(***************************************************************************)

\* Python's None: a JSON null, an absent parameter, an absent or empty body.
None == [t |-> "null"]
JBool(b) == [t |-> "bool", v |-> b]
JNum(n) == [t |-> "num", v |-> n]
JStr(s) == [t |-> "str", v |-> s]
JList(q) == [t |-> "list", v |-> q]
JObj(f) == [t |-> "obj", v |-> f]

HasKey(j, k) == j.t = "obj" /\ k \in DOMAIN j.v

\* dict.get(k): the member, or None
Get(j, k) == IF HasKey(j, k) THEN j.v[k] ELSE None

(***************************************************************************)
(* Route table                                                             *)
(***************************************************************************)

Lit(s) == [k |-> "lit", v |-> s]
Param(n) == [k |-> "param", v |-> n]

Rt(methods, pattern, handler) == [methods |-> methods, path |-> pattern, handler |-> handler]

\* FastAPI() registers its documentation routes at construction.
DocRoutes ==
  << Rt({"GET", "HEAD"}, <<Lit("openapi.json")>>, "openapi"),
     Rt({"GET", "HEAD"}, <<Lit("docs")>>, "swagger_ui_html"),
     Rt({"GET", "HEAD"}, <<Lit("docs"), Lit("oauth2-redirect")>>, "swagger_ui_redirect"),
     Rt({"GET", "HEAD"}, <<Lit("redoc")>>, "redoc_html") >>

\* The decorators of main.py, in source order.
AppRoutes ==
  << Rt({"GET"}, <<Lit("")>>, "root"),
     Rt({"GET"}, <<Lit("names"), Lit("name"), Lit("prz")>>, "read_prz"),
     Rt({"GET"}, <<Lit("names"), Lit("name"), Param("name")>>, "read_name"),
     Rt({"GET"}, <<Lit("names"), Lit("age"), Param("age")>>, "read_age"),
     Rt({"GET"}, <<Lit("spice"), Param("spice")>>, "get_spice"),
     Rt({"GET"}, <<Lit("get-query-params")>>, "get_query_parameter"),
     Rt({"POST"}, <<Lit("create-user"), Lit("")>>, "create_user"),
     Rt({"POST"}, <<Lit("items"), Lit("")>>, "create_item"),
     Rt({"PUT"}, <<Lit("items"), Param("item_id")>>, "update_item"),
     Rt({"PUT"}, <<Lit("items"), Lit("single-model"), Param("item_id")>>, "update_single_model"),
     Rt({"POST"}, <<Lit("items"), Lit("create-images")>>, "create_images"),
     Rt({"GET"}, <<Lit("items"), Lit("")>>, "items"),
     Rt({"GET"}, <<Lit("items-multi-q"), Lit("")>>, "handle_multi_queries"),
     Rt({"GET"}, <<Lit("new-path"), Param("item_id")>>, "new_path") >>

RouteTable == DocRoutes \o AppRoutes

\* A literal segment matches an identical segment; {param} is [^/]+.
SegMatches(p, seg) == IF p.k = "lit" THEN seg = p.v ELSE Len(seg) > 0

PathMatches(pattern, path) ==
  /\ Len(pattern) = Len(path)
  /\ \A i \in 1..Len(pattern) : SegMatches(pattern[i], path[i])

MatchKindAnyMethod(r, method, path) ==
  IF ~PathMatches(r.path, path) THEN "NONE" ELSE "FULL"

\* Route.matches
MatchKind(r, method, path) ==
  IF ~PathMatches(r.path, path) THEN "NONE"
  ELSE IF method \notin r.methods THEN "PARTIAL"
  ELSE "FULL"

FirstFull(table, method, path) ==
  LET I == {i \in 1..Len(table) : MatchKind(table[i], method, path) = "FULL"}
  IN  CHOOSE i \in I : \A j \in I : i <= j

LastFull(table, method, path) ==
  LET I == {i \in 1..Len(table) : MatchKind(table[i], method, path) = "FULL"}
  IN  CHOOSE i \in I : \A j \in I : i >= j

\* The routes are tried in registration order and the first full match wins.
Winner(table, method, path) == FirstFull(table, method, path)

RECURSIVE RStripSlash(_)
RStripSlash(path) ==
  IF Len(path) > 0 /\ path[Len(path)] = "" THEN RStripSlash(SubSeq(path, 1, Len(path) - 1))
  ELSE path

\* redirect_slashes: the path with its trailing slash removed, or added.
ToggleSlash(path) ==
  IF path[Len(path)] = "" THEN RStripSlash(path) ELSE Append(path, "")

\* Router.app
Dispatch(table, method, path) ==
  LET kinds == [i \in 1..Len(table) |-> MatchKind(table[i], method, path)]
  IN  IF \E i \in 1..Len(table) : kinds[i] = "FULL"
        THEN [kind |-> "route", idx |-> Winner(table, method, path)]
      ELSE IF \E i \in 1..Len(table) : kinds[i] = "PARTIAL"
        THEN [kind |-> "method_not_allowed", idx |-> 0]
      ELSE IF /\ path # <<"">>
              /\ \E i \in 1..Len(table) :
                   MatchKind(table[i], method, ToggleSlash(path)) # "NONE"
        THEN [kind |-> "redirect", idx |-> 0]
      ELSE [kind |-> "not_found", idx |-> 0]

\* The path parameters a route's pattern captures, as text.
PathParams(r, path) ==
  [n \in {r.path[i].v : i \in {j \in 1..Len(r.path) : r.path[j].k = "param"}} |->
     path[CHOOSE i \in 1..Len(r.path) : r.path[i] = Param(n)]]

(***************************************************************************)
(* Field validation (pydantic v1)                                          *)
(***************************************************************************)

Ok(v) == [ok |-> TRUE, v |-> v]
Bad == [ok |-> FALSE, v |-> None]

UpperAlphabet == "ABCDEFGHIJKLMNOPQRSTUVWXYZ"
LowerAlphabet == "abcdefghijklmnopqrstuvwxyz"

LowerChar(c) ==
  IF \E i \in 1..Len(UpperAlphabet) : CharAt(UpperAlphabet, i) = c
  THEN CharAt(LowerAlphabet, CHOOSE i \in 1..Len(UpperAlphabet) : CharAt(UpperAlphabet, i) = c)
  ELSE c

RECURSIVE Lower(_)
Lower(s) == IF Len(s) = 0 THEN "" ELSE LowerChar(CharAt(s, 1)) \o Lower(SubSeq(s, 2, Len(s)))

\* str_validator: text, or a number turned into its text
StrV(j) ==
  IF j.t = "str" THEN Ok(j)
  ELSE IF j.t = "num" THEN Ok(JStr(TextOfInt(j.v)))
  ELSE Bad

\* int_validator: a number, or int(text)
IntV(j) ==
  IF j.t = "num" THEN Ok(j)
  ELSE IF j.t = "str" /\ IsIntText(j.v) THEN Ok(JNum(IntOfText(j.v)))
  ELSE Bad

\* float_validator: a number, or float(text); the model's numbers are whole
FloatV(j) == IntV(j)

BoolTrue == {"1", "on", "t", "true", "y", "yes"}
BoolFalse == {"0", "off", "f", "false", "n", "no"}

\* bool_validator
BoolV(j) ==
  IF j.t = "bool" THEN Ok(j)
  ELSE IF j.t = "str" /\ Lower(j.v) \in BoolTrue THEN Ok(JBool(TRUE))
  ELSE IF j.t = "str" /\ Lower(j.v) \in BoolFalse THEN Ok(JBool(FALSE))
  ELSE Bad

\* class Spice(str, Enum)
Spice == {"pepper", "salt", "maggi"}

\* enum validation: Spice(value), an exact match of a member's value
SpiceV(j) == IF j.t = "str" /\ j.v \in Spice THEN Ok(j) ELSE Bad

\* A field of a model, res being the validation of the member under key: absent
\* keys take the default; Optional turns null into None.
FieldV(j, key, required, optional, default, res) ==
  IF ~HasKey(j, key) THEN (IF required THEN Bad ELSE Ok(default))
  ELSE IF j.v[key] = None THEN (IF optional THEN Ok(None) ELSE Bad)
  ELSE res

\* A model instance from the results of its fields.
ModelV(j, fields) ==
  IF j.t # "obj" THEN Bad
  ELSE IF \E f \in DOMAIN fields : ~fields[f].ok THEN Bad
  ELSE Ok(JObj([f \in DOMAIN fields |-> fields[f].v]))

HasPrefix(s, p) == Len(s) >= Len(p) /\ SubSeq(s, 1, Len(p)) = p

\* HttpUrl: scheme http or https, a host and a top-level domain
HttpUrlV(j) ==
  IF j.t # "str" THEN Bad
  ELSE LET rest == IF HasPrefix(j.v, "https://") THEN SubSeq(j.v, 9, Len(j.v))
                   ELSE IF HasPrefix(j.v, "http://") THEN SubSeq(j.v, 8, Len(j.v))
                   ELSE ""
       IN  IF \E i \in 2..(Len(rest) - 1) :
                /\ CharAt(rest, i) = "."
                /\ \A k \in 1..Len(rest) : CharAt(rest, k) \notin {"/", ":", " "}
           THEN Ok(j) ELSE Bad

\* class Image(BaseModel)
ImageV(j) ==
  ModelV(j, [url |-> FieldV(j, "url", TRUE, FALSE, None, HttpUrlV(Get(j, "url"))),
             name |-> FieldV(j, "name", TRUE, FALSE, None, StrV(Get(j, "name")))])

DescriptionMaxLength == 30

\* Item.description: max_length = 30
DescriptionV(j) ==
  IF StrV(j).ok /\ Len(StrV(j).v.v) <= DescriptionMaxLength THEN StrV(j) ELSE Bad

\* Item.price: gt = 0
PriceV(j) == IF FloatV(j).ok /\ FloatV(j).v.v > 0 THEN FloatV(j) ELSE Bad

EmptySet == [t |-> "set", v |-> {}]

\* Item.tags: set[str], the elements of a JSON list with duplicates merged
TagsV(j) ==
  IF j.t # "list" THEN Bad
  ELSE IF \E i \in 1..Len(j.v) : ~StrV(j.v[i]).ok THEN Bad
  ELSE Ok([t |-> "set", v |-> {StrV(j.v[i]).v : i \in 1..Len(j.v)}])

\* class Item(BaseModel); tax: float | None = Field(example=...) is optional
ItemV(j) ==
  ModelV(j, [name |-> FieldV(j, "name", TRUE, FALSE, None, StrV(Get(j, "name"))),
             description |-> FieldV(j, "description", FALSE, TRUE, None,
                                    DescriptionV(Get(j, "description"))),
             price |-> FieldV(j, "price", TRUE, FALSE, None, PriceV(Get(j, "price"))),
             tax |-> FieldV(j, "tax", FALSE, TRUE, None, FloatV(Get(j, "tax"))),
             tags |-> FieldV(j, "tags", FALSE, FALSE, EmptySet, TagsV(Get(j, "tags"))),
             image |-> FieldV(j, "image", FALSE, TRUE, None, ImageV(Get(j, "image")))])

\* class UserOutput(BaseModel)
UserOutputFields == {"username", "full_name", "age"}

\* class User(UserOutput)
UserV(j) ==
  ModelV(j, [username |-> FieldV(j, "username", TRUE, FALSE, None, StrV(Get(j, "username"))),
             full_name |-> FieldV(j, "full_name", FALSE, TRUE, None, StrV(Get(j, "full_name"))),
             age |-> FieldV(j, "age", FALSE, FALSE, JNum(0), IntV(Get(j, "age"))),
             password |-> FieldV(j, "password", TRUE, FALSE, None, StrV(Get(j, "password")))])

\* list[Image]: every element validated, order kept
ImagesV(j) ==
  IF j.t # "list" THEN Bad
  ELSE IF \E i \in 1..Len(j.v) : ~ImageV(j.v[i]).ok THEN Bad
  ELSE Ok(JList([i \in 1..Len(j.v) |-> ImageV(j.v[i]).v]))

\* list[str]
StrListV(j) ==
  IF j.t # "list" THEN Bad
  ELSE IF \E i \in 1..Len(j.v) : ~StrV(j.v[i]).ok THEN Bad
  ELSE Ok(JList([i \in 1..Len(j.v) |-> StrV(j.v[i]).v]))

\* list
AnyListV(j) == IF j.t = "list" THEN Ok(j) ELSE Bad

TypeV(type, j) ==
  CASE type = "str" -> StrV(j)
    [] type = "int" -> IntV(j)
    [] type = "bool" -> BoolV(j)
    [] type = "Spice" -> SpiceV(j)
    [] type = "list" -> AnyListV(j)
    [] type = "list[str]" -> StrListV(j)
    [] type = "Item" -> ItemV(j)
    [] type = "User" -> UserV(j)
    [] type = "list[Image]" -> ImagesV(j)

(***************************************************************************)
(* Parameter declarations                                                  *)
(***************************************************************************)

P(name, src, alias, type, required, default, cons) ==
  [name |-> name, src |-> src, alias |-> alias, type |-> type, required |-> required,
   default |-> default, cons |-> cons, embed |-> FALSE]

Embed(p) == [p EXCEPT !.embed = TRUE]

ItemIdGe == 1
ItemIdLt == 1000
QMinLength == 3
QMaxLength == 50

\* The signature of each path operation function.
Decl(handler) ==
  CASE handler = "read_prz" ->
         << P("some_cookie", "cookie", "some_cookie", "str", FALSE, None, {}),
            P("user_agent", "header", "user-agent", "str", FALSE, None, {}),
            P("x_token", "header", "x-token", "list[str]", FALSE, None, {}) >>
    [] handler = "read_name" -> << P("name", "path", "name", "str", TRUE, None, {}) >>
    [] handler = "read_age" -> << P("age", "path", "age", "int", TRUE, None, {}) >>
    [] handler = "get_spice" -> << P("spice", "path", "spice", "Spice", TRUE, None, {}) >>
    [] handler = "get_query_parameter" ->
         << P("mandatory", "query", "mandatory", "str", TRUE, None, {}),
            P("flag", "query", "flag", "bool", FALSE, JBool(FALSE), {}),
            P("extra", "query", "extra", "str", FALSE, None, {}) >>
    [] handler = "create_user" -> << P("user", "body", "user", "User", TRUE, None, {}) >>
    [] handler = "create_item" -> << P("item", "body", "item", "Item", TRUE, None, {}) >>
    [] handler = "update_item" ->
         << P("item_id", "path", "item_id", "int", TRUE, None, {}),
            P("item", "body", "item", "Item", TRUE, None, {}),
            P("user", "body", "user", "User", TRUE, None, {}),
            P("counter", "body", "counter", "int", TRUE, None, {}) >>
    [] handler = "update_single_model" ->
         << P("item_id", "path", "item_id", "int", TRUE, None, {}),
            Embed(P("item", "body", "item", "Item", TRUE, None, {})) >>
    [] handler = "create_images" ->
         << P("images", "body", "images", "list[Image]", TRUE, None, {}) >>
    [] handler = "items" ->
         << P("q", "query", "item-query", "str", FALSE, None,
              {[c |-> "min_length", v |-> QMinLength], [c |-> "max_length", v |-> QMaxLength],
               [c |-> "regex", v |-> "fixedquery"]}) >>
    [] handler = "handle_multi_queries" ->
         << P("q", "query", "q", "list", FALSE, JList(<<JStr("zupa")>>), {}) >>
    [] handler = "new_path" ->
         << P("q", "query", "q", "str", TRUE, None, {}),
            P("item_id", "path", "item_id", "int", TRUE, None,
              {[c |-> "ge", v |-> ItemIdGe], [c |-> "lt", v |-> ItemIdLt]}) >>
    [] OTHER -> << >>

(***************************************************************************)
(* Binding                                                                 *)
(***************************************************************************)

\* The values of the pairs of q whose key is k, in order of appearance.
RECURSIVE Values(_, _)
Values(q, k) ==
  IF Len(q) = 0 THEN << >>
  ELSE IF q[1].k = k THEN <<JStr(q[1].v)>> \o Values(Tail(q), k)
  ELSE Values(Tail(q), k)

LowerKeys(h) == [i \in 1..Len(h) |-> [k |-> Lower(h[i].k), v |-> h[i].v]]

GetListLast(q, k) ==
  IF Len(Values(q, k)) = 0 THEN None ELSE JList(<<Values(q, k)[Len(Values(q, k))]>>)

\* QueryParams.getlist / Headers.getlist; no value at all leaves the default
GetList(q, k) == IF Len(Values(q, k)) = 0 THEN None ELSE JList(Values(q, k))

\* QueryParams.get: the last value of a repeated key
GetLast(q, k) == IF Len(Values(q, k)) = 0 THEN None ELSE Values(q, k)[Len(Values(q, k))]

\* Headers.get: the first line of that name
GetFirst(h, k) == IF Len(Values(h, k)) = 0 THEN None ELSE Values(h, k)[1]

IsListType(type) == type \in {"list", "list[str]"}

BodyParams(decl) == {i \in 1..Len(decl) : decl[i].src = "body"}

\* One body parameter without embed=True is the whole body; otherwise each is a key.
BodyValue(p, decl, body) ==
  IF Cardinality(BodyParams(decl)) = 1 /\ ~p.embed THEN body ELSE Get(body, p.alias)

\* The raw value of one parameter, None when the request does not carry it.
Extract(p, decl, rq, pp) ==
  CASE p.src = "path" -> JStr(pp[p.alias])
    [] p.src = "query" ->
         IF IsListType(p.type) THEN GetList(rq.query, p.alias) ELSE GetLast(rq.query, p.alias)
    [] p.src = "header" ->
         IF IsListType(p.type) THEN GetList(LowerKeys(rq.headers), p.alias)
         ELSE GetFirst(LowerKeys(rq.headers), p.alias)
    [] p.src = "cookie" -> Get(rq.cookies, p.alias)
    [] p.src = "body" -> BodyValue(p, decl, rq.body)

\* The raw values of all the parameters of a handler, by name.
ExtractAll(handler, rq, pp) ==
  LET decl == Decl(handler)
  IN  [n \in {decl[i].name : i \in 1..Len(decl)} |->
         Extract(decl[CHOOSE i \in 1..Len(decl) : decl[i].name = n], decl, rq, pp)]

ConsOkLe(c, j) ==
  CASE c.c = "ge" -> j.v >= c.v
    [] c.c = "lt" -> j.v <= c.v
    [] c.c = "min_length" -> Len(j.v) >= c.v
    [] c.c = "max_length" -> Len(j.v) <= c.v
    [] c.c = "regex" -> j.v = c.v

ConsOk(c, j) ==
  CASE c.c = "ge" -> j.v >= c.v
    [] c.c = "lt" -> j.v < c.v
    [] c.c = "min_length" -> Len(j.v) >= c.v
    [] c.c = "max_length" -> Len(j.v) <= c.v
    [] c.c = "regex" -> j.v = c.v

\* Type conversion, then the constraints of the declaration.
Constrained(p, j) ==
  IF TypeV(p.type, j).ok /\ \A c \in p.cons : ConsOk(c, TypeV(p.type, j).v)
  THEN TypeV(p.type, j) ELSE Bad

\* One parameter: a missing required one fails, a missing optional one takes its
\* default, a supplied one is converted and checked.
Check(p, j) ==
  IF j = None THEN (IF p.required THEN Bad ELSE Ok(p.default))
  ELSE Constrained(p, j)

\* dict.get(n)
Lookup(f, n) == IF n \in DOMAIN f THEN f[n] ELSE None

\* Every declared parameter is checked, whatever the others did.
CheckAll(handler, rawvals) ==
  LET decl == Decl(handler)
  IN  [n \in {decl[i].name : i \in 1..Len(decl)} |->
         Check(decl[CHOOSE i \in 1..Len(decl) : decl[i].name = n], Lookup(rawvals, n))]

AllErrors(checked) == {n \in DOMAIN checked : ~checked[n].ok}

FirstErrorOnly(checked) ==
  IF AllErrors(checked) = {} THEN {} ELSE {CHOOSE n \in AllErrors(checked) : TRUE}

\* The errors of all parameters are collected into one RequestValidationError.
Errors(checked) == AllErrors(checked)

Values_(checked) == [n \in DOMAIN checked |-> checked[n].v]

(***************************************************************************)
(* Path operation functions                                                *)
(***************************************************************************)

Return(v) == [raised |-> FALSE, v |-> v]
Raise == [raised |-> TRUE, v |-> None]

Marker == " + happy!"

\* float + float; float + None raises TypeError
Add(x, y) == IF x.t = "num" /\ y.t = "num" THEN Return(JNum(x.v + y.v)) ELSE Raise

GetSpiceByValue(spice) ==
  IF spice.v = "pepper" THEN "use pepper"
  ELSE IF spice.v = "maggi" THEN "use salt"
  ELSE "use maggi"

\* get_spice
GetSpice(spice) ==
  IF spice.v = "pepper" THEN "use pepper"
  ELSE IF spice.v = "salt" THEN "use salt"
  ELSE "use maggi"

CreateItem(item) ==
  LET named == [item.v EXCEPT !.name = JStr(item.v.name.v \o Marker)]
      brutto == Add(item.v.price, item.v.tax)
  IN  IF brutto.raised THEN Raise
      ELSE Return(JObj(("brutto" :> brutto.v) @@ named))

UpdateSingleModel(item_id, item) ==
  LET brutto == Add(item.v.price, item.v.tax)
  IN  IF brutto.raised THEN Raise
      ELSE Return(JObj([item_id |-> item_id, item |-> JObj(("brutto" :> brutto.v) @@ item.v)]))

Items(q) ==
  IF q # None /\ Len(q.v) > 0 THEN Return(JObj([fuu |-> JStr("bar"), q |-> q]))
  ELSE Return(JObj([fuu |-> JStr("bar")]))

\* The handler called with its bound arguments a.
Call(handler, a) ==
  CASE handler = "root" -> Return(JObj([message |-> JStr("Hello World")]))
    [] handler = "read_prz" ->
         Return(JObj([Name |-> JStr("PRZ"), some_cookie |-> a.some_cookie,
                      user_agent |-> a.user_agent, x_token |-> a.x_token]))
    [] handler = "read_name" ->
         Return(JObj([Name |-> a.name, Type |-> JStr("<class 'str'>")]))
    [] handler = "read_age" ->
         Return(JObj([Age |-> a.age, Type |-> JStr("<class 'int'>")]))
    [] handler = "get_spice" -> Return(JObj([action |-> JStr(GetSpice(a.spice))]))
    [] handler = "get_query_parameter" ->
         Return(JObj([mandatory |-> a.mandatory, flag |-> a.flag, extra |-> a.extra]))
    [] handler = "create_user" -> Return(a.user)
    [] handler = "create_item" -> CreateItem(a.item)
    [] handler = "update_item" ->
         Return(JObj([item_id |-> a.item_id, item |-> a.item, user |-> a.user,
                      counter |-> a.counter]))
    [] handler = "update_single_model" -> UpdateSingleModel(a.item_id, a.item)
    [] handler = "create_images" -> Return(JObj([images |-> a.images]))
    [] handler = "items" -> Items(a.q)
    [] handler = "handle_multi_queries" -> Return(JObj([q |-> a.q]))
    [] handler = "new_path" -> Return(JObj([item_id |-> a.item_id, q |-> a.q]))
    [] OTHER -> Return(JStr(handler))

(***************************************************************************)
(* Response shaping                                                        *)
(***************************************************************************)

NoFields == {}

\* response_model: the fields the response is cut down to, when one is declared
HasResponseModel(handler) == handler = "create_user"

ResponseModelFields(handler) == UserOutputFields

ExcludeNothing(handler) == NoFields

\* response_model_exclude
ResponseExclude(handler) == IF handler = "create_user" THEN {"age"} ELSE NoFields

Shape(handler, j) ==
  IF HasResponseModel(handler)
  THEN JObj([f \in (ResponseModelFields(handler) \cap DOMAIN j.v) \ ResponseExclude(handler)
               |-> j.v[f]])
  ELSE j

(***************************************************************************)
(* Requests                                                                *)
(***************************************************************************)

MaxDigits == 4
MaxQ == 3
MaxInFlight == 2

Req(m, p, q, h, c, b) ==
  [method |-> m, path |-> p, query |-> q, headers |-> h, cookies |-> c, body |-> b]

NoCookies == JObj(<< >>)

Get_(p, q) == Req("GET", p, q, << >>, NoCookies, None)

Send(m, p, b) == Req(m, p, << >>, << >>, NoCookies, b)

KV(k, v) == [k |-> k, v |-> v]

\* The JSON object with the members of a set of <<key, value>> pairs.
MkObj(pairs) ==
  JObj([k \in {kv[1] : kv \in pairs} |-> (CHOOSE kv \in pairs : kv[1] = k)[2]])

\* A key that is absent, or present with one of the values.
Opt(k, vals) == {{}} \cup {{<<k, v>>} : v \in vals}

Methods == {"GET", "POST", "PUT", "DELETE"}

SampleSegs == {"prz", "5", "abc", "pepper", "single-model"}

Concrete(pattern, seg) ==
  [i \in 1..Len(pattern) |-> IF pattern[i].k = "lit" THEN pattern[i].v ELSE seg]

RoutePaths == {Concrete(RouteTable[i].path, seg) : i \in 1..Len(RouteTable), seg \in SampleSegs}

Paths ==
  RoutePaths
    \cup {ToggleSlash(p) : p \in RoutePaths \ {<<"">>}}
    \cup {Append(p, "abc") : p \in RoutePaths}
    \cup {SubSeq(p, 1, Len(p) - 1) : p \in {x \in RoutePaths : Len(x) > 1}}
    \cup {<<"nope">>, <<"nope", "">>, <<"names", "name", "">>, <<"", "">>}

RoutingRequests == {Send(m, p, None) : m \in Methods, p \in Paths}

IdDigits == {"0", "1", "9"}

RECURSIVE DigitTexts(_)
DigitTexts(n) ==
  IF n = 0 THEN {""} ELSE {t \o d : t \in DigitTexts(n - 1), d \in IdDigits}

IdTexts ==
  LET nat == UNION {DigitTexts(n) : n \in 1..MaxDigits}
  IN  nat \cup {"-" \o t : t \in nat} \cup {"abc", "1a", "-", "+5"}

NewPathRequests ==
  {Get_(<<"new-path", id>>, q) : id \in IdTexts, q \in {<< >>, <<KV("q", "a")>>}}

AgeRequests == {Get_(<<"names", "age", a>>, << >>) : a \in {"7", "-1", "abc", "7.5"}}

NameRequests ==
  {Get_(<<"names", "name", n>>, << >>) : n \in {"prz", "PRZ", "przz", "pr", "5"}}

SpiceRequests ==
  {Get_(<<"spice", x>>, << >>) :
     x \in {"pepper", "salt", "maggi", "ketchup", "Pepper", "pepper salt", "sal"}}

QPairs == {KV("q", "3"), KV("q", "90"), KV("x", "1")}

RECURSIVE Queries(_)
Queries(n) ==
  IF n = 0 THEN {<< >>} ELSE {Append(q, kv) : q \in Queries(n - 1), kv \in QPairs}

MultiQRequests ==
  {Get_(<<"items-multi-q", "">>, q) : q \in UNION {Queries(n) : n \in 0..MaxQ}}

ItemsRequests ==
  {Get_(<<"items", "">>, q) :
     q \in {<< >>, <<KV("item-query", "fixedquery")>>, <<KV("item-query", "ab")>>,
            <<KV("item-query", "fixedquerx")>>, <<KV("q", "fixedquery")>>,
            <<KV("item-query", "ab"), KV("item-query", "fixedquery")>>}}

GetQueryRequests ==
  {Get_(<<"get-query-params">>, m \o f \o e) :
     m \in {<< >>, <<KV("mandatory", "zupa")>>},
     f \in {<< >>, <<KV("flag", "on")>>, <<KV("flag", "False")>>, <<KV("flag", "maybe")>>},
     e \in {<< >>, <<KV("extra", "olaboga")>>}}

PrzRequests ==
  {Req("GET", <<"names", "name", "prz">>, << >>, h, c, None) :
     h \in {<< >>, <<KV("User-Agent", "curl")>>,
            <<KV("X-Token", "a"), KV("user-agent", "curl"), KV("x-token", "b")>>},
     c \in {NoCookies, JObj([some_cookie |-> JStr("fbab")])}}

LongText == "0123456789012345678901234567890"

GoodImage == JObj([url |-> JStr("https://example.com"), name |-> JStr("example")])
BadImage == JObj([url |-> JStr("not a url"), name |-> JStr("example")])

ItemBodies ==
  {MkObj(n \cup p \cup t \cup d \cup g \cup i) :
     n \in Opt("name", {JStr("Foo")}),
     p \in {{<<"price", JNum(22)>>}, {<<"price", JNum(0)>>}},
     t \in Opt("tax", {None, JNum(11), JStr("abc")}),
     d \in Opt("description", {JStr("Bar"), JStr(LongText)}),
     g \in Opt("tags", {JList(<<JStr("oho"), JStr("boho"), JStr("oho")>>)}),
     i \in Opt("image", {GoodImage, BadImage})}

GoodItem == JObj([name |-> JStr("Foo"), price |-> JNum(22), tax |-> JNum(11)])
NoTaxItem == JObj([name |-> JStr("Foo"), price |-> JNum(22), tax |-> None])
BadItem == JObj([name |-> JStr("Foo"), price |-> JNum(0), tax |-> JNum(11)])

CreateItemRequests ==
  {Send("POST", <<"items", "">>, b) : b \in ItemBodies \cup {JList(<< >>), JStr("Foo")}}

UserBodies ==
  {MkObj(u \cup f \cup a \cup w) :
     u \in Opt("username", {JStr("bob")}),
     f \in Opt("full_name", {JStr("Bob B")}),
     a \in Opt("age", {JNum(3), JStr("abc")}),
     w \in Opt("password", {JStr("secret"), JStr("")})}

GoodUser == JObj([username |-> JStr("bob"), password |-> JStr("secret")])
BadUser == JObj([username |-> JStr("bob")])

CreateUserRequests == {Send("POST", <<"create-user", "">>, b) : b \in UserBodies}

UpdateItemRequests ==
  {Send("PUT", <<"items", id>>, MkObj(i \cup u \cup c)) :
     id \in {"5", "abc"},
     i \in Opt("item", {GoodItem, BadItem}),
     u \in Opt("user", {GoodUser, BadUser}),
     c \in Opt("counter", {JNum(6), JStr("abc")})}

SingleModelRequests ==
  {Send("PUT", <<"items", "single-model", "5">>, b) :
     b \in {JObj([item |-> GoodItem]), JObj([item |-> NoTaxItem]), JObj([item |-> BadItem]),
            GoodItem}}

CreateImagesRequests ==
  {Send("POST", <<"items", "create-images">>, b) :
     b \in {JList(<< >>), JList(<<GoodImage>>), JList(<<GoodImage, BadImage>>),
            JObj([images |-> JList(<<GoodImage>>)])}}

Requests ==
  RoutingRequests \cup NewPathRequests \cup AgeRequests \cup NameRequests
    \cup SpiceRequests \cup MultiQRequests \cup ItemsRequests \cup GetQueryRequests
    \cup PrzRequests \cup CreateItemRequests \cup CreateUserRequests
    \cup UpdateItemRequests \cup SingleModelRequests \cup CreateImagesRequests

\* The requests that are in flight together in SpecConc.
ConcRequests ==
  { Send("POST", <<"items", "">>, GoodItem),
    Send("POST", <<"items", "">>, NoTaxItem),
    Send("POST", <<"create-user", "">>, GoodUser),
    Send("PUT", <<"items", "abc">>, JObj([item |-> BadItem])),
    Get_(<<"names", "name", "prz">>, << >>),
    Get_(<<"new-path", "5">>, <<KV("q", "a")>>),
    Get_(<<"nope">>, << >>) }

(***************************************************************************)
(* The life of a request                                                   *)
(***************************************************************************)

Slots == 1..MaxInFlight

InFlight == {"MATCHING", "BINDING", "VALIDATING", "INVOKING", "SERIALIZING"}
Ended == {"DONE", "FAILED", "REDIRECTED", "ABANDONED"}

Resp(status, body) == [status |-> status, body |-> body]

OwnScope(s) == s
SharedScope(s) == 1

\* Each call has its own arguments and locals.
Scope(s) == OwnScope(s)

Handler(s) == routes[route[s]].handler

Init ==
  /\ routes = RouteTable
  /\ req = [s \in Slots |-> None]
  /\ state = [s \in Slots |-> "IDLE"]
  /\ route = [s \in Slots |-> 0]
  /\ raw = [s \in Slots |-> None]
  /\ args = [s \in Slots |-> None]
  /\ errors = [s \in Slots |-> {}]
  /\ invoked = [s \in Slots |-> ""]
  /\ result = [s \in Slots |-> None]
  /\ response = [s \in Slots |-> None]

Arrive(s, r) ==
  /\ state[s] = "IDLE"
  /\ req' = [req EXCEPT ![s] = r]
  /\ state' = [state EXCEPT ![s] = "MATCHING"]
  /\ UNCHANGED <<routes, route, raw, args, errors, invoked, result, response>>

Match(s) ==
  /\ state[s] = "MATCHING"
  /\ LET d == Dispatch(routes, req[s].method, req[s].path)
     IN  CASE d.kind = "route" ->
                /\ route' = [route EXCEPT ![s] = d.idx]
                /\ state' = [state EXCEPT ![s] = "BINDING"]
                /\ UNCHANGED response
           [] d.kind = "method_not_allowed" ->
                /\ state' = [state EXCEPT ![s] = "FAILED"]
                /\ response' = [response EXCEPT ![s] = Resp(405, JStr("Method Not Allowed"))]
                /\ UNCHANGED route
           [] d.kind = "redirect" ->
                /\ state' = [state EXCEPT ![s] = "REDIRECTED"]
                /\ response' = [response EXCEPT ![s] = Resp(307, JStr(""))]
                /\ UNCHANGED route
           [] d.kind = "not_found" ->
                /\ state' = [state EXCEPT ![s] = "FAILED"]
                /\ response' = [response EXCEPT ![s] = Resp(404, JObj([detail |-> JStr("Not Found")]))]
                /\ UNCHANGED route
  /\ UNCHANGED <<routes, req, raw, args, errors, invoked, result>>

Bind(s) ==
  /\ state[s] = "BINDING"
  /\ raw' = [raw EXCEPT ![Scope(s)] =
               ExtractAll(Handler(s), req[s], PathParams(routes[route[s]], req[s].path))]
  /\ state' = [state EXCEPT ![s] = "VALIDATING"]
  /\ UNCHANGED <<routes, req, route, args, errors, invoked, result, response>>

Validate(s) ==
  /\ state[s] = "VALIDATING"
  /\ LET checked == CheckAll(Handler(s), raw[Scope(s)])
     IN  /\ errors' = [errors EXCEPT ![s] = Errors(checked)]
         /\ IF Errors(checked) = {}
            THEN /\ args' = [args EXCEPT ![Scope(s)] = Values_(checked)]
                 /\ state' = [state EXCEPT ![s] = "INVOKING"]
                 /\ UNCHANGED response
            ELSE /\ state' = [state EXCEPT ![s] = "FAILED"]
                 /\ response' = [response EXCEPT ![s] =
                                   Resp(422, [t |-> "errors", v |-> Errors(checked)])]
                 /\ UNCHANGED args
  /\ UNCHANGED <<routes, req, route, raw, invoked, result>>

InvokeWithRetry(s) ==
  /\ state[s] = "INVOKING"
  /\ invoked' = [invoked EXCEPT ![s] = Handler(s)]
  /\ LET r == Call(Handler(s), args[Scope(s)])
     IN  IF r.raised
         THEN /\ state' = [state EXCEPT ![s] = "BINDING"]
              /\ UNCHANGED <<result, response>>
         ELSE /\ state' = [state EXCEPT ![s] = "SERIALIZING"]
              /\ result' = [result EXCEPT ![Scope(s)] = r.v]
              /\ UNCHANGED response
  /\ UNCHANGED <<routes, req, route, raw, args, errors>>

Invoke(s) ==
  /\ state[s] = "INVOKING"
  /\ invoked' = [invoked EXCEPT ![s] = Handler(s)]
  /\ LET r == Call(Handler(s), args[Scope(s)])
     IN  IF r.raised
         THEN /\ state' = [state EXCEPT ![s] = "FAILED"]
              /\ response' = [response EXCEPT ![s] = Resp(500, JStr("Internal Server Error"))]
              /\ UNCHANGED result
         ELSE /\ state' = [state EXCEPT ![s] = "SERIALIZING"]
              /\ result' = [result EXCEPT ![Scope(s)] = r.v]
              /\ UNCHANGED response
  /\ UNCHANGED <<routes, req, route, raw, args, errors>>

Serialize(s) ==
  /\ state[s] = "SERIALIZING"
  /\ response' = [response EXCEPT ![s] = Resp(200, Shape(Handler(s), result[Scope(s)]))]
  /\ state' = [state EXCEPT ![s] = "DONE"]
  /\ UNCHANGED <<routes, req, route, raw, args, errors, invoked, result>>

\* The transport disconnects: the work in flight for the request is abandoned.
Disconnect(s) ==
  /\ state[s] \in InFlight
  /\ state' = [state EXCEPT ![s] = "ABANDONED"]
  /\ UNCHANGED <<routes, req, route, raw, args, errors, invoked, result, response>>

\* The request is over and what was built for it is discarded.
Discard(s) ==
  /\ state[s] \in Ended
  /\ req' = [req EXCEPT ![s] = None]
  /\ state' = [state EXCEPT ![s] = "IDLE"]
  /\ route' = [route EXCEPT ![s] = 0]
  /\ raw' = [raw EXCEPT ![Scope(s)] = None]
  /\ args' = [args EXCEPT ![Scope(s)] = None]
  /\ errors' = [errors EXCEPT ![s] = {}]
  /\ invoked' = [invoked EXCEPT ![s] = ""]
  /\ result' = [result EXCEPT ![Scope(s)] = None]
  /\ response' = [response EXCEPT ![s] = None]
  /\ UNCHANGED routes

Process(s) == Match(s) \/ Bind(s) \/ Validate(s) \/ Invoke(s) \/ Serialize(s)

\* One request at a time, drawn from R.
Serve(R) ==
  \/ \E r \in R : Arrive(1, r)
  \/ Match(1)
  \/ Bind(1)
  \/ Validate(1)
  \/ Invoke(1)
  \/ Serialize(1)
  \/ Disconnect(1)
  \/ Discard(1)

Next == Serve(Requests)

Spec == Init /\ [][Next]_vars

\* The requests of FairSpec: every way a request can end.
FairRequests ==
  CreateUserRequests \cup NameRequests \cup AgeRequests \cup SpiceRequests
    \cup {Send("POST", <<"items", "">>, b) : b \in {GoodItem, NoTaxItem, BadItem}}
    \cup {Send(m, p, None) : m \in Methods,
                             p \in {<<"">>, <<"create-user", "">>, <<"create-user">>,
                                    <<"items", "">>, <<"items">>, <<"nope">>}}

NextFair == Serve(FairRequests)

\* A request in flight is worked on until it ends, unless the transport disconnects.
FairSpec == Init /\ [][NextFair]_vars /\ WF_vars(Process(1))

\* Several requests in flight, their steps interleaved.
NextConc ==
  \E s \in Slots :
    \/ \E r \in ConcRequests : Arrive(s, r)
    \/ Match(s)
    \/ Bind(s)
    \/ Validate(s)
    \/ Invoke(s)
    \/ Serialize(s)
    \/ Disconnect(s)
    \/ Discard(s)

SpecConc == Init /\ [][NextConc]_vars

IndexOf(table, handler) == CHOOSE i \in 1..Len(table) : table[i].handler = handler

Swap(table, i, j) ==
  [k \in 1..Len(table) |-> IF k = i THEN table[j] ELSE IF k = j THEN table[i] ELSE table[k]]

\* The two orders in which the decorators of read_prz and read_name can run.
RegistrationOrders ==
  {RouteTable, Swap(RouteTable, IndexOf(RouteTable, "read_prz"), IndexOf(RouteTable, "read_name"))}

InitOrder ==
  /\ routes \in RegistrationOrders
  /\ req = [s \in Slots |-> None]
  /\ state = [s \in Slots |-> "IDLE"]
  /\ route = [s \in Slots |-> 0]
  /\ raw = [s \in Slots |-> None]
  /\ args = [s \in Slots |-> None]
  /\ errors = [s \in Slots |-> {}]
  /\ invoked = [s \in Slots |-> ""]
  /\ result = [s \in Slots |-> None]
  /\ response = [s \in Slots |-> None]

OrderRequests == RoutingRequests \cup NameRequests \cup PrzRequests

NextOrder == Serve(OrderRequests)

\* The application with read_prz and read_name registered in either order.
SpecOrder == InitOrder /\ [][NextOrder]_vars

(***************************************************************************)
(* Properties                                                              *)
(***************************************************************************)

Responded(s) == state[s] \in {"DONE", "FAILED", "REDIRECTED"}

IsPath(r, m, p) == r.method = m /\ r.path = p

IsNameRequest(r) ==
  /\ r.method = "GET" /\ Len(r.path) = 3
  /\ r.path[1] = "names" /\ r.path[2] = "name" /\ Len(r.path[3]) > 0

PrzFirst == IndexOf(routes, "read_prz") < IndexOf(routes, "read_name")

NameHandlerRight(s) ==
  /\ (state[s] \in Ended \ {"ABANDONED"} \/ state[s] \in InFlight \ {"MATCHING"}) => route[s] # 0
  /\ route[s] # 0 =>
       Handler(s) = IF req[s].path[3] = "prz" THEN "read_prz" ELSE "read_name"

\* C1 (as amended): with read_prz registered before read_name, as main.py does, GET
\* /names/name/prz is dispatched to read_prz and never to read_name, and every other
\* non-empty segment after /names/name/ is dispatched to read_name.
C1_PrzWinsWhenRegisteredFirst ==
  \A s \in Slots : (state[s] # "IDLE" /\ IsNameRequest(req[s]) /\ PrzFirst) => NameHandlerRight(s)

\* C1 as stated: the same for every registration order of the two routes.
C1_PrzWinsInAnyOrder ==
  \A s \in Slots : (state[s] # "IDLE" /\ IsNameRequest(req[s])) => NameHandlerRight(s)

C1_Witness ==
  \E s \in Slots :
    /\ PrzFirst /\ state[s] = "DONE" /\ req[s].path = <<"names", "name", "prz">>
    /\ invoked[s] = "read_prz"

\* C2: a 200 response of POST /create-user/ has neither a password nor an age key,
\* although the instance the handler returned carries both.
C2_NoPasswordNoAge ==
  \A s \in Slots :
    (state[s] # "IDLE" /\ IsPath(req[s], "POST", <<"create-user", "">>)) =>
      /\ (Responded(s) /\ UserV(req[s].body).ok) => state[s] = "DONE"
      /\ state[s] = "DONE" =>
           /\ response[s].status = 200
           /\ {"password", "age"} \subseteq DOMAIN result[s].v
           /\ {"password", "age"} \cap DOMAIN response[s].body.v = {}
           /\ response[s].body.v.username = req[s].body.v.username

C2_Witness ==
  \E s \in Slots :
    /\ state[s] = "DONE" /\ invoked[s] = "create_user"
    /\ {"password", "age"} \subseteq DOMAIN req[s].body.v

\* C3: every POST /items/ whose body is a valid Item ends with status 200, brutto
\* equal to price + tax and the submitted name followed by the marker once.
C3_ValidItemGetsBrutto ==
  \A s \in Slots :
    (Responded(s) /\ IsPath(req[s], "POST", <<"items", "">>) /\ ItemV(req[s].body).ok) =>
      /\ state[s] = "DONE"
      /\ response[s].status = 200
      /\ response[s].body.v.name = JStr(ItemV(req[s].body).v.v.name.v \o " + happy!")
      /\ ItemV(req[s].body).v.v.tax # None
      /\ response[s].body.v.brutto =
           JNum(ItemV(req[s].body).v.v.price.v + ItemV(req[s].body).v.v.tax.v)

\* The parameters of the matched handler that the request does not satisfy.
Failing(s) ==
  LET decl == Decl(Handler(s))
      pp == PathParams(routes[route[s]], req[s].path)
  IN  {decl[i].name : i \in {k \in 1..Len(decl) :
                               ~Check(decl[k], Extract(decl[k], decl, req[s], pp)).ok}}

Kind(s) == response[s].status

\* The moves of one request that the state machine of the specification allows.
StatedMove(s) ==
  \/ state'[s] = state[s]
  \/ state[s] = "IDLE" /\ state'[s] = "MATCHING"
  \/ state[s] = "MATCHING" /\ state'[s] = "BINDING"
  \/ state[s] = "BINDING" /\ state'[s] = "VALIDATING"
  \/ state[s] = "VALIDATING" /\ state'[s] = "INVOKING"
  \/ state[s] = "INVOKING" /\ state'[s] = "SERIALIZING"
  \/ state[s] = "SERIALIZING" /\ state'[s] = "DONE"
  \/ state[s] = "MATCHING" /\ state'[s] = "FAILED" /\ Kind(s)' = 404
  \/ state[s] \in {"BINDING", "VALIDATING"} /\ state'[s] = "FAILED" /\ Kind(s)' = 422
  \/ state[s] = "INVOKING" /\ state'[s] = "FAILED" /\ Kind(s)' = 500
  \/ state[s] \in {"DONE", "FAILED"} /\ state'[s] = "IDLE"

\* A disconnect abandons the request, whatever it was doing.
AbandonMove(s) ==
  \/ state[s] \in InFlight /\ state'[s] = "ABANDONED"
  \/ state[s] = "ABANDONED" /\ state'[s] = "IDLE"

\* What the routing adds to the moves of the specification.
RoutingMove(s) ==
  \/ state[s] = "MATCHING" /\ state'[s] = "FAILED" /\ Kind(s)' = 405
  \/ state[s] = "MATCHING" /\ state'[s] = "REDIRECTED" /\ Kind(s)' = 307
  \/ state[s] = "REDIRECTED" /\ state'[s] = "IDLE"

RegisteredUnder(m, p) ==
  \E i \in 1..Len(routes) : m \in routes[i].methods /\ PathMatches(routes[i].path, p)

PathRegistered(p) == \E i \in 1..Len(routes) : PathMatches(routes[i].path, p)

\* C6 (as amended): a request whose path matches no route, with or without its
\* trailing slash, gets 404; one whose path is registered under other methods only
\* gets 405; one whose path matches only with the trailing slash toggled gets 307;
\* none of them invokes a handler, and a request that matches is dispatched to one
\* route registered for its method and path.
C6_Unmatched ==
  \A s \in Slots :
    Responded(s) =>
      LET m == req[s].method
          p == req[s].path
      IN  IF RegisteredUnder(m, p)
          THEN /\ route[s] # 0
               /\ m \in routes[route[s]].methods
               /\ PathMatches(routes[route[s]].path, p)
               /\ invoked[s] \in {"", routes[route[s]].handler}
          ELSE /\ route[s] = 0 /\ invoked[s] = ""
               /\ Kind(s) = IF PathRegistered(p) THEN 405
                            ELSE IF p # <<"">> /\ PathRegistered(ToggleSlash(p)) THEN 307
                            ELSE 404

\* C6 as stated: every request that matches no route for its method and path gets 404.
C6_UnmatchedIs404 ==
  \A s \in Slots :
    (Responded(s) /\ ~RegisteredUnder(req[s].method, req[s].path)) =>
      Kind(s) = 404 /\ invoked[s] = ""

C6_Witness ==
  \E s \in Slots :
    /\ state[s] = "FAILED" /\ IsPath(req[s], "GET", <<"create-user", "">>)
    /\ Kind(s) = 405

\* What a request yields when it is handled alone.
Alone(r) ==
  LET d == Dispatch(RouteTable, r.method, r.path)
  IN  CASE d.kind = "not_found" -> Resp(404, JObj([detail |-> JStr("Not Found")]))
        [] d.kind = "method_not_allowed" -> Resp(405, JStr("Method Not Allowed"))
        [] d.kind = "redirect" -> Resp(307, JStr(""))
        [] d.kind = "route" ->
             LET h == RouteTable[d.idx].handler
                 checked == CheckAll(h, ExtractAll(h, r, PathParams(RouteTable[d.idx], r.path)))
             IN  IF AllErrors(checked) # {}
                 THEN Resp(422, [t |-> "errors", v |-> AllErrors(checked)])
                 ELSE IF Call(h, Values_(checked)).raised
                 THEN Resp(500, JStr("Internal Server Error"))
                 ELSE Resp(200, Shape(h, Call(h, Values_(checked)).v))

\* C7: whatever the interleaving of the requests in flight, and whichever of them are
\* abandoned, a completed request has the response it has when handled alone, and the
\* route table stays the one built at startup.
C7_Isolation ==
  /\ routes = RouteTable
  /\ \A s \in Slots : Responded(s) => response[s] = Alone(req[s])

C7_Witness ==
  \E s, t \in Slots :
    /\ s # t /\ state[s] = "DONE" /\ state[t] = "ABANDONED"
    /\ raw[t] # None /\ req[s] # req[t]
    /\ invoked[s] = "create_item"

IsNewPathWithQ(r) ==
  /\ r.method = "GET" /\ Len(r.path) = 2 /\ r.path[1] = "new-path"
  /\ r.query = <<KV("q", "a")>>

\* C8: GET /new-path/{item_id} with q supplied answers 200 with item_id and q exactly
\* when 1 <= item_id < 1000, and 422 without invoking new_path otherwise.
C8_ItemIdBounds ==
  \A s \in Slots :
    (Responded(s) /\ IsNewPathWithQ(req[s]) /\ IsIntText(req[s].path[2])) =>
      LET n == IntOfText(req[s].path[2])
      IN  IF 1 <= n /\ n < 1000
          THEN /\ state[s] = "DONE"
               /\ response[s] = Resp(200, JObj([item_id |-> JNum(n), q |-> JStr("a")]))
          ELSE /\ state[s] = "FAILED" /\ Kind(s) = 422 /\ invoked[s] = ""
               /\ req[s].path[2] \notin {"1", "999"}

C8_Witness ==
  \E s \in Slots :
    /\ state[s] = "FAILED" /\ Kind(s) = 422 /\ IsNewPathWithQ(req[s])
    /\ req[s].path[2] = "1000" /\ errors[s] = {"item_id"}

IsQ(kv) == kv.k = "q"

\* C9: GET /items-multi-q/ returns as q the values of the q keys of the query string
\* in order of appearance, duplicates kept, and ["zupa"] when there is no q key.
C9_MultiQ ==
  \A s \in Slots :
    (Responded(s) /\ IsPath(req[s], "GET", <<"items-multi-q", "">>)) =>
      LET qs == SelectSeq(req[s].query, IsQ)
      IN  /\ state[s] = "DONE"
          /\ response[s].status = 200
          /\ response[s].body.v.q.t = "list"
          /\ IF Len(qs) = 0 THEN response[s].body.v.q.v = <<JStr("zupa")>>
             ELSE /\ Len(response[s].body.v.q.v) = Len(qs)
                  /\ \A i \in 1..Len(qs) : response[s].body.v.q.v[i] = JStr(qs[i].v)

C9_Witness ==
  \E s \in Slots :
    /\ state[s] = "DONE"
    /\ req[s].query = <<KV("q", "90"), KV("x", "1"), KV("q", "90")>>
    /\ response[s].body.v.q.v = <<JStr("90"), JStr("90")>>

IsSpiceRequest(r) ==
  r.method = "GET" /\ Len(r.path) = 2 /\ r.path[1] = "spice" /\ Len(r.path[2]) > 0

\* C10: GET /spice/{spice} answers 200 with action "use m" for the member m named in
\* the path, and 422 without invoking get_spice for any other value.
C10_Spice ==
  \A s \in Slots :
    (Responded(s) /\ IsSpiceRequest(req[s])) =>
      IF req[s].path[2] \in {"pepper", "salt", "maggi"}
      THEN /\ state[s] = "DONE"
           /\ response[s] = Resp(200, JObj([action |-> JStr("use " \o req[s].path[2])]))
      ELSE state[s] = "FAILED" /\ Kind(s) = 422 /\ invoked[s] = ""

C10_Witness ==
  \E s \in Slots :
    /\ state[s] = "DONE" /\ req[s].path = <<"spice", "maggi">>
    /\ invoked[s] = "get_spice"

====
